---------------------------- MODULE Spec2Model ----------------------------
(***************************************************************************)
(* A model of dom-with-styles: the snapshot builder domWithStyles          *)
(* (src/src/index.js) and the mutation tracker trackMutation               *)
(* (src/src/domObserver.js).                                               *)
(*                                                                         *)
(* Four specifications share the module:                                   *)
(*   Spec       the snapshot cache: requests, page storage, mutations      *)
(*   SpecBuild  one build over a richer set of style sheets                *)
(*   SpecClone  deepCloneWithStyles over bounded live trees                *)
(*   SpecStyle  updateStyle / getDefaultStyle over bounded elements        *)
(***************************************************************************)
EXTENDS Integers, Sequences, FiniteSets, TLC

VARIABLES
    allow_snapshot,   \* sessionStorage item 'allow_snapshot' ("<null>" when absent)
    dom_snapshot,     \* sessionStorage item 'dom_snapshot' (a string value, NullItem when absent)
    liveVersion,      \* number of structural mutations the live tree has undergone
    observers,        \* MutationObservers observing document.documentElement
    tracked,          \* trackMutation() has been called and has returned
    pendingRecords,   \* mutation records queued for the observer, callback not yet run
    page,             \* the page: style sheets, head, global bindings, MutationObserver
    req,              \* the calls of domWithStyles, each with its position
    tree,             \* SpecClone: the live tree handed to deepCloneWithStyles
    cloned,           \* SpecClone: the result of deepCloneWithStyles
    defaultStylesCache, \* SpecStyle: the Map of index.js line 12
    shapeStyle,       \* SpecStyle: what an empty element of each shape seen computes to
    visit             \* SpecStyle: the last element handed to updateStyle and its clone

vars == <<allow_snapshot, dom_snapshot, liveVersion, observers, tracked, pendingRecords,
          page, req,
          tree, cloned, defaultStylesCache, shapeStyle, visit>>

cacheVars == <<allow_snapshot, dom_snapshot, liveVersion, observers, tracked,
               pendingRecords, page, req>>
cloneVars == <<tree, cloned>>
styleVars == <<defaultStylesCache, shapeStyle, visit>>

---------------------------------------------------------------------------
(* Bounds *)

MaxSheets == 2
MaxCacheSheets == 1
MaxRules == 2
MaxRequests == 1
MaxMutations == 1

Reqs == 1..MaxRequests

---------------------------------------------------------------------------
(* Page storage and string values *)

\* getItem of a key that is not stored
NullItem == [kind |-> "null"]

NoAllow == "<null>"

\* a string put in storage by something other than a build; length 0 is ''
ForeignString(n) == [kind |-> "foreign", length |-> n]

\* JavaScript truthiness of a getItem result: null and '' are falsy
Truthy(s) == s.kind # "null" /\ ~(s.kind = "foreign" /\ s.length = 0)

\* XMLSerializer.serializeToString: the string that carries the document
serializeToString(doc) == [kind |-> "xml", doc |-> doc]

---------------------------------------------------------------------------
(* Errors a build can raise *)

NoError == "none"
RangeError == "RangeError: Maximum call stack size exceeded"
FetchError == "TypeError: Failed to fetch"
ReferenceError == "ReferenceError: rootNode is not defined"
HeadError == "TypeError: doc.head is null"
QuotaExceededError == "QuotaExceededError: Setting the value of 'dom_snapshot' exceeded the quota"

\* a completed block of code: it returned `doc`, or it threw `error`
Returned(doc) == [threw |-> FALSE, error |-> NoError, doc |-> doc]
Threw(error) == [threw |-> TRUE, error |-> error, doc |-> [type |-> "none"]]

---------------------------------------------------------------------------
(* Style sheets of the page *)

\* rule k of sheet s: its cssText names it, its selector is the k-th selector
Rule(s, k) == [cssText |-> <<s, k>>, selectorText |-> k]

\* sheet s with n rules; readable is whether styleSheet.cssRules can be read
Sheet(s, readable, n) == [readable |-> readable, rules |-> [k \in 1..n |-> Rule(s, k)]]

\* document.styleSheets of at most maxSheets sheets of rule counts in `counts`
SheetLists(maxSheets, counts) ==
    UNION { { [s \in 1..len |-> Sheet(s, f[s][1], f[s][2])] :
                f \in [1..len -> BOOLEAN \X counts] } : len \in 0..maxSheets }

\* initializeStyleSheets, from sheet i on, up to the first sheet whose cssRules
\* cannot be read (loadCss is then awaited) or to the end of the list
RECURSIVE initializeStyleSheetsFront(_, _)
initializeStyleSheetsFront(sheets, i) ==
    IF i > Len(page.styleSheets)
    THEN [state |-> "returned", sheets |-> sheets, i |-> i]
    ELSE IF page.styleSheets[i].readable
         THEN initializeStyleSheetsFront(<<page.styleSheets[i].rules>> \o sheets, i + 1)
         ELSE [state |-> "loading", sheets |-> sheets, i |-> i]

RECURSIVE initializeStyleSheets(_, _)
initializeStyleSheets(sheets, i) ==
    IF i > Len(page.styleSheets)
    THEN [state |-> "returned", sheets |-> sheets, i |-> i]
    ELSE IF page.styleSheets[i].readable
         THEN initializeStyleSheets(Append(sheets, page.styleSheets[i].rules), i + 1)
         ELSE [state |-> "loading", sheets |-> sheets, i |-> i]

\* loadCss after fetch(href) resolved: css = response.text() is a pending
\* promise, not its text, so textContent becomes "[object Promise]", which
\* holds no rule
loadCssFetched(i) == << >>

\* loadCss after fetch(href) rejected and loadCssWithCorsAnywhere resolved:
\* the awaited text of the sheet, parsed into its rules
loadCssProxied(i) == page.styleSheets[i].rules

\* getUsedStyles: per sheet, the cssText of the rules kept, in order
getUsedStyles(isOptimizeCss, styleSheets) ==
    [i \in 1..Len(styleSheets) |->
        LET Keep(rule) == ~isOptimizeCss \/ rule.selectorText \in page.matched
            clean == SelectSeq(styleSheets[i], Keep)
        IN  [r \in 1..Len(clean) |-> clean[r].cssText]]

\* finalize: the document of the clone and one style element per non-empty
\* rule list; document.head === undefined never holds (a missing head is
\* null), so no head is ever added and doc.head.appendChild throws without one
finalize(isOptimizeCss, node, styleSheets) ==
    LET used == getUsedStyles(isOptimizeCss, styleSheets)
        NonEmpty(rules) == Len(rules) # 0
        styles == SelectSeq(used, NonEmpty)
    IN  IF styles # << >> /\ ~page.hasHead
        THEN Threw(HeadError)
        ELSE Returned([type |-> "document", root |-> node, styles |-> styles])

\* createErrorDocument: <html><body>error</body></html>
createErrorDocument(error) == [type |-> "error", message |-> error]

---------------------------------------------------------------------------
(* domWithStyles: one call, suspended at its awaits *)

\* a call that has not been made yet
IdleCall ==
    [pc |-> "idle", optimize |-> FALSE, i |-> 0, sheets |-> << >>,
     node |-> [version |-> 0], error |-> NoError, lost |-> 0, thrown |-> NoError,
     result |-> NullItem, promise |-> "none", rejection |-> NoError, built |-> FALSE]

\* the cache lookup: allow_snapshot === 'true' and a truthy dom_snapshot
cacheHitNever == FALSE
cacheHit == allow_snapshot = "true" /\ Truthy(dom_snapshot)

\* the body of the try block once createDomElements has settled: the await
\* rethrows a rejection; the destructuring assignment to the undeclared
\* rootNode and styleSheets throws in module (strict) code unless the global
\* object has those properties; then finalize builds the document
tryBlock(q) ==
    IF q.error # NoError THEN Threw(q.error)
    ELSE IF ~page.bindings THEN Threw(ReferenceError)
    ELSE finalize(q.optimize, q.node, q.sheets)

\* try/catch around the build: whatever is thrown becomes the error document
settle(body) ==
    IF body.threw THEN createErrorDocument(body.error) ELSE body.doc

\* Storage.setItem of a new dom_snapshot: it stores the string, or it throws
\* QuotaExceededError when the storage cannot take it; which one depends on
\* the size of the string and on what else the storage holds
setItemOutcomes == {"stored", "threw"}

\* the call after initializeStyleSheets went on from sheet i with `sheets`
\* collected: suspended on the next fetch, or on the await of createDomElements
Collecting(q, sheets, i) ==
    LET c == initializeStyleSheets(sheets, i)
    IN  [q EXCEPT !.sheets = c.sheets, !.i = c.i,
                  !.pc = IF c.state = "loading" THEN "fetch" ELSE "await"]

\* domWithStyles(optimizeImport) up to its first await: the cache lookup, then
\* createDomElements, which starts initializeStyleSheets and clones the tree.
\* A caller whose earlier call has settled may call again.
DomWithStyles(r) ==
    /\ req[r].pc \in {"idle", "done"}
    /\ \E optimizeImport \in BOOLEAN, cloneThrows \in BOOLEAN :
        req' = [req EXCEPT ![r] =
            IF cacheHit
            THEN [IdleCall EXCEPT !.pc = "done", !.promise = "resolved",
                                  !.result = dom_snapshot]
            ELSE IF cloneThrows
            THEN [IdleCall EXCEPT !.pc = "await", !.optimize = optimizeImport,
                                  !.built = TRUE, !.promise = "pending",
                                  !.error = RangeError]
            ELSE Collecting([IdleCall EXCEPT !.optimize = optimizeImport, !.built = TRUE,
                                             !.promise = "pending",
                                             !.node = [version |-> liveVersion]],
                            << >>, 1)]
    /\ UNCHANGED <<allow_snapshot, dom_snapshot, liveVersion, observers, tracked, pendingRecords, page>>
    /\ UNCHANGED <<cloneVars, styleVars>>

\* fetch(href) of the sheet being loaded settles
FetchSettled(r) ==
    /\ req[r].pc = "fetch"
    /\ \E ok \in BOOLEAN :
        LET q == req[r]
        IN  req' = [req EXCEPT ![r] =
                IF ok
                THEN Collecting(q, Append(q.sheets, loadCssFetched(q.i)), q.i + 1)
                ELSE [q EXCEPT !.pc = "proxy"]]
    /\ UNCHANGED <<allow_snapshot, dom_snapshot, liveVersion, observers, tracked, pendingRecords, page>>
    /\ UNCHANGED <<cloneVars, styleVars>>

\* await fetch(proxyUrl + href) settles: with a response the call goes on to
\* wait for its body; a rejection is thrown out of the catch block of
\* loadCss, then out of the catch block of initializeStyleSheets
ProxyFetchSettled(r) ==
    /\ req[r].pc = "proxy"
    /\ \E ok \in BOOLEAN :
        LET q == req[r]
        IN  req' = [req EXCEPT ![r] =
                IF ok
                THEN [q EXCEPT !.pc = "proxyText"]
                ELSE [q EXCEPT !.pc = "await", !.error = FetchError, !.lost = q.i]]
    /\ UNCHANGED <<allow_snapshot, dom_snapshot, liveVersion, observers, tracked, pendingRecords, page>>
    /\ UNCHANGED <<cloneVars, styleVars>>

\* response.text() of the proxied response, returned by
\* loadCssWithCorsAnywhere and awaited in the catch block of loadCss, settles:
\* the text is parsed into the sheet's rules; a rejection leaves the same way
\* as the rejection of the proxy fetch
ProxyTextSettled(r) ==
    /\ req[r].pc = "proxyText"
    /\ \E ok \in BOOLEAN :
        LET q == req[r]
        IN  req' = [req EXCEPT ![r] =
                IF ok
                THEN Collecting(q, Append(q.sheets, loadCssProxied(q.i)), q.i + 1)
                ELSE [q EXCEPT !.pc = "await", !.error = FetchError, !.lost = q.i]]
    /\ UNCHANGED <<allow_snapshot, dom_snapshot, liveVersion, observers, tracked, pendingRecords, page>>
    /\ UNCHANGED <<cloneVars, styleVars>>

\* the call resumes after await createDomElements(): try/catch, serialize,
\* setItem under allow_snapshot === 'true', return. setItem is outside the
\* try/catch: when it throws nothing is stored and the promise rejects. The
\* locals of the call (optimizeImport, the sheets, the clone) are gone with it
Resume(r) ==
    /\ req[r].pc = "await"
    /\ LET body == tryBlock(req[r])
           dom == serializeToString(settle(body))
           gone == [IdleCall EXCEPT !.pc = "done", !.built = TRUE,
                                    !.lost = req[r].lost, !.thrown = body.error]
       IN  IF allow_snapshot = "true"
           THEN \E setItem \in setItemOutcomes :
                   IF setItem = "stored"
                   THEN /\ dom_snapshot' = dom
                        /\ req' = [req EXCEPT ![r] =
                               [gone EXCEPT !.promise = "resolved", !.result = dom]]
                   ELSE /\ UNCHANGED dom_snapshot
                        /\ req' = [req EXCEPT ![r] =
                               [gone EXCEPT !.promise = "rejected",
                                            !.rejection = QuotaExceededError]]
           ELSE /\ UNCHANGED dom_snapshot
                /\ req' = [req EXCEPT ![r] =
                       [gone EXCEPT !.promise = "resolved", !.result = dom]]
    /\ UNCHANGED <<allow_snapshot, liveVersion, observers, tracked, pendingRecords, page>>
    /\ UNCHANGED <<cloneVars, styleVars>>

---------------------------------------------------------------------------
(* trackMutation and the live tree *)

\* JavaScript values, to compare with ===
JsString(s) == [type |-> "string", value |-> s]
JsUndefined == [type |-> "undefined", value |-> ""]

\* typeof of the undeclared identifier observeDOM: the string "undefined"
TypeofObserveDOM == JsString("undefined")

\* the function the IIFE returns (domObserver.js lines 6-18); nothing calls it
observeDOM ==
    IF page.hasMutationObserver
    THEN /\ observers' = observers + 1
         /\ allow_snapshot' = "true"
    ELSE /\ observers' = observers
         /\ allow_snapshot' = "false"

\* trackMutation(): the guard compares a string with undefined, so the block
\* (which would remove dom_snapshot and build observeDOM) never runs
TrackMutation ==
    /\ IF TypeofObserveDOM = JsUndefined
       THEN dom_snapshot' = NullItem
       ELSE UNCHANGED dom_snapshot
    /\ tracked' = TRUE
    /\ UNCHANGED <<allow_snapshot, liveVersion, observers, pendingRecords, page, req>>
    /\ UNCHANGED <<cloneVars, styleVars>>

\* a child-list or subtree change of the live tree: it queues a record for
\* an installed observer, whose callback runs later, at a microtask checkpoint
StructuralMutation ==
    /\ liveVersion < MaxMutations
    /\ liveVersion' = liveVersion + 1
    /\ pendingRecords' = IF observers > 0 THEN TRUE ELSE pendingRecords
    /\ UNCHANGED <<allow_snapshot, dom_snapshot, observers, tracked, page, req>>
    /\ UNCHANGED <<cloneVars, styleVars>>

\* the observer's callback, run once for the records queued since its last
\* run: it removes dom_snapshot
ObserverCallback ==
    /\ observers > 0
    /\ pendingRecords
    /\ pendingRecords' = FALSE
    /\ dom_snapshot' = NullItem
    /\ UNCHANGED <<allow_snapshot, liveVersion, observers, tracked, page, req>>
    /\ UNCHANGED <<cloneVars, styleVars>>

---------------------------------------------------------------------------
(* Spec: the snapshot cache;  SpecBuild: one build *)

NoTree == << >>
NoVisit == [n |-> 0]

OtherInit ==
    /\ tree = NoTree
    /\ cloned = [done |-> FALSE, kept |-> {}]
    /\ defaultStylesCache = << >>
    /\ shapeStyle = << >>
    /\ visit = NoVisit

\* pages of the cache specification: every sheet has one rule, which matches
CachePages ==
    [styleSheets : SheetLists(MaxCacheSheets, {1}), matched : {1..MaxRules},
     hasHead : {TRUE}, bindings : BOOLEAN, hasMutationObserver : BOOLEAN]

\* pages of the build specification
BuildPages ==
    [styleSheets : SheetLists(MaxSheets, 0..MaxRules), matched : SUBSET (1..MaxRules),
     hasHead : BOOLEAN, bindings : BOOLEAN, hasMutationObserver : {TRUE}]

\* page-scoped storage outlives the script: it starts with whatever the tab holds
Init ==
    /\ allow_snapshot \in {NoAllow, "true", "false"}
    /\ dom_snapshot \in {NullItem, ForeignString(0), ForeignString(1)}
    /\ liveVersion = 0
    /\ observers = 0
    /\ tracked = FALSE
    /\ pendingRecords = FALSE
    /\ page \in CachePages
    /\ req = [r \in Reqs |-> IdleCall]
    /\ OtherInit

\* trackMutation() installs no observer, so no record is ever queued here and
\* ObserverCallback is a step of NextObserved only
Next ==
    \/ TrackMutation
    \/ StructuralMutation
    \/ \E r \in Reqs : DomWithStyles(r)
    \/ \E r \in Reqs : FetchSettled(r)
    \/ \E r \in Reqs : ProxyFetchSettled(r)
    \/ \E r \in Reqs : ProxyTextSettled(r)
    \/ \E r \in Reqs : Resume(r)

Spec == Init /\ [][Next]_vars

InitBuild ==
    /\ allow_snapshot \in {NoAllow, "true"}
    /\ dom_snapshot = NullItem
    /\ liveVersion = 0
    /\ observers = 0
    /\ tracked = FALSE
    /\ pendingRecords = FALSE
    /\ page \in BuildPages
    /\ req = [r \in Reqs |-> IdleCall]
    /\ OtherInit

NextBuild ==
    \/ DomWithStyles(1)
    \/ FetchSettled(1)
    \/ ProxyFetchSettled(1)
    \/ ProxyTextSettled(1)
    \/ Resume(1)

SpecBuild == InitBuild /\ [][NextBuild]_vars

---------------------------------------------------------------------------
(* Claims about the build and the cache *)

\* the string of the error document carrying `error`
ErrorString(error) == serializeToString(createErrorDocument(error))

\* C1 (as claimed): the promise of domWithStyles never rejects: a settled call
\* has resolved with a document string, and when collection (all fetches of a
\* sheet failed), cloning or assembly threw, that string is the serialized
\* error document carrying the thrown error.
C1_NeverRejects ==
    \A r \in Reqs :
        /\ req[r].promise # "rejected"
        /\ req[r].pc = "done" =>
              /\ req[r].promise = "resolved"
              /\ req[r].result.kind = "xml"
              /\ req[r].lost # 0 => req[r].result = ErrorString(FetchError)
              /\ req[r].thrown # NoError => req[r].result = ErrorString(req[r].thrown)

\* C2 (as claimed): with allow_snapshot = 'true', a stored snapshot and
\* trackMutation() called, a structural mutation clears the stored snapshot:
\* at once, or by leaving a record pending for the observer's callback, which
\* removes it.
C2_MutationClearsSnapshot ==
    [][(/\ allow_snapshot = "true"
        /\ dom_snapshot # NullItem
        /\ tracked
        /\ liveVersion' # liveVersion)
       => (dom_snapshot' = NullItem \/ pendingRecords')]_vars

\* C3: a call that starts with allow_snapshot = 'true' and a non-empty
\* dom_snapshot returns exactly that string, builds nothing and leaves both
\* storage items as they were.
C3_CacheHit ==
    [][\A r \in Reqs :
          (/\ req[r].pc \in {"idle", "done"}
           /\ req'[r] # req[r]
           /\ allow_snapshot = "true"
           /\ dom_snapshot # NullItem
           /\ dom_snapshot # ForeignString(0))
          => /\ req'[r].pc = "done"
             /\ req'[r].promise = "resolved"
             /\ req'[r].result = dom_snapshot
             /\ ~req'[r].built
             /\ dom_snapshot' = dom_snapshot
             /\ allow_snapshot' = allow_snapshot]_vars

\* a call was served from the cache: it built nothing and holds the stored string
C3_Witness ==
    \E r \in Reqs :
        /\ req[r].pc = "done"
        /\ ~req[r].built
        /\ allow_snapshot = "true"
        /\ req[r].result = dom_snapshot
        /\ Truthy(dom_snapshot)

\* C4 (as claimed): a sheet that no path recovers yields an empty rule list at
\* its position and the collection completes with every sheet.
C4_BadSheetYieldsEmptyList ==
    \A r \in Reqs :
        (req[r].pc = "await" /\ req[r].lost # 0)
        => /\ req[r].error = NoError
           /\ Len(req[r].sheets) = Len(page.styleSheets)
           /\ req[r].sheets[req[r].lost] = << >>

\* C5 (as claimed): after trackMutation() returns, allow_snapshot is 'true' and
\* one observer is active where MutationObserver exists, and allow_snapshot is
\* 'false' where it does not.
C5_TrackMutationSetsFlag ==
    tracked =>
        IF page.hasMutationObserver
        THEN allow_snapshot = "true" /\ observers = 1
        ELSE allow_snapshot = "false" /\ observers = 0

\* the rule texts of one style element: one sheet's, in rule order
RulesInOrder(rules) ==
    \A a, b \in 1..Len(rules) :
        a < b => rules[a][1] = rules[b][1] /\ rules[a][2] < rules[b][2]

\* C6: the sheets collected so far are the page's sheets in document.styleSheets
\* order (position j holds rules of sheet j only, in rule order; all of them
\* once collection has returned), and the style elements of the assembled
\* document are in sheet order, each with its rules in rule order.
C6_CascadeOrder ==
    \A r \in Reqs :
        /\ \A j \in 1..Len(req[r].sheets) :
              /\ j <= Len(page.styleSheets)
              /\ \A k \in 1..Len(req[r].sheets[j]) :
                    /\ req[r].sheets[j][k].cssText[1] = j
                    /\ \A m \in 1..Len(req[r].sheets[j]) :
                          k < m => req[r].sheets[j][k].cssText[2]
                                      < req[r].sheets[j][m].cssText[2]
        /\ (req[r].pc = "await" /\ req[r].error = NoError)
              => Len(req[r].sheets) = Len(page.styleSheets)
        /\ (/\ req[r].pc = "done" /\ req[r].built /\ req[r].thrown = NoError
            /\ req[r].promise = "resolved")
              => LET styles == req[r].result.doc.styles
                 IN  /\ \A x \in 1..Len(styles) :
                           Len(styles[x]) > 0 /\ RulesInOrder(styles[x])
                     /\ \A x, y \in 1..Len(styles) :
                           x < y => styles[x][1][1] < styles[y][1][1]

\* a document was assembled with two style elements, the second holding both
\* rules of a sheet that only the proxy could recover
C6_Witness ==
    \E r \in Reqs :
        /\ req[r].pc = "done" /\ req[r].built /\ req[r].thrown = NoError
        /\ req[r].promise = "resolved"
        /\ Len(req[r].result.doc.styles) = 2
        /\ Len(req[r].result.doc.styles[2]) = 2
        /\ ~page.styleSheets[2].readable

\* C9 (as claimed): with allow_snapshot = 'true' and no dom_snapshot, a build
\* that succeeds and whose call resolves stores its result, and a build that
\* failed stores nothing.
C9_OnlySuccessStored ==
    [][\A r \in Reqs :
          (/\ req[r].pc = "await"
           /\ req'[r].pc = "done"
           /\ allow_snapshot = "true"
           /\ dom_snapshot = NullItem)
          => IF req'[r].thrown = NoError
             THEN req'[r].promise = "resolved" => dom_snapshot' = req'[r].result
             ELSE dom_snapshot' = NullItem]_vars

---------------------------------------------------------------------------
(* The live tree and deepCloneWithStyles *)

MaxNodes == 4

\* Node.TEXT_NODE
TEXT_NODE == 3

\* tagName of a node that is no element
Undefined == "undefined"

ignoreTagsShort == {"SCRIPT", "NOSCRIPT", "STYLE"}
ignoreTags == {"SCRIPT", "NOSCRIPT", "STYLE", "LINK"}

\* String.prototype.toUpperCase and toLowerCase on the tag names of the model
\* (an HTML document reports upper-case names, an XML document the names as
\* written)
toUpperCase(name) ==
    CASE name = "script" -> "SCRIPT"
      [] name = "span" -> "SPAN"
      [] name = "img" -> "IMG"
      [] OTHER -> name

toLowerCase(name) ==
    CASE name = "HTML" -> "html"
      [] name = "DIV" -> "div"
      [] name = "SPAN" -> "span"
      [] name = "IMG" -> "img"
      [] name = "SCRIPT" -> "script"
      [] name = "NOSCRIPT" -> "noscript"
      [] name = "STYLE" -> "style"
      [] name = "LINK" -> "link"
      [] OTHER -> name

\* nodes of the live tree: tree[n].parent is the index of the parent (0 for
\* the root, node 1); the children of a node are in index order
ElementNode(tagName) ==
    [parent |-> 0, nodeType |-> 1, tagName |-> tagName, nodeValue |-> << >>]
TextNode(nodeValue) ==
    [parent |-> 0, nodeType |-> TEXT_NODE, tagName |-> Undefined, nodeValue |-> nodeValue]
CommentNode ==
    [parent |-> 0, nodeType |-> 8, tagName |-> Undefined, nodeValue |-> << >>]

TagNames ==
    {"DIV", "SPAN", "IMG", "SCRIPT", "NOSCRIPT", "STYLE", "LINK", "script", "span"}

\* character codes of the text nodes: every blank code, a letter, and the
\* empty text
TextValues == {<< >>, <<9, 32, 11>>, <<12, 10, 13>>, <<32, 65>>}

NodeKinds ==
    {ElementNode(t) : t \in TagNames} \cup {TextNode(v) : v \in TextValues}
        \cup {CommentNode}

\* node.childNodes
childNodes(n) == {c \in 1..Len(tree) : tree[c].parent = n}

\* node.previousElementSibling and node.nextElementSibling (0 for null): the
\* closest sibling before, after the node that is an element
previousElementSibling(n) ==
    LET before == {m \in 1..(n - 1) :
                      tree[m].parent = tree[n].parent /\ tree[m].nodeType = 1}
    IN  IF before = {} THEN 0 ELSE CHOOSE m \in before : \A x \in before : x <= m

nextElementSibling(n) ==
    LET after == {m \in (n + 1)..Len(tree) :
                     tree[m].parent = tree[n].parent /\ tree[m].nodeType = 1}
    IN  IF after = {} THEN 0 ELSE CHOOSE m \in after : \A x \in after : m <= x

\* hasTagName(node, tagName)
hasTagName(n, tagName) ==
    IF tree[n].tagName = Undefined THEN FALSE
    ELSE toLowerCase(tree[n].tagName) = toLowerCase(tagName)

\* isBlankCharacter(charCode)
isBlankCharacterNoVT(charCode) ==
    9 = charCode \/ 32 = charCode \/ 12 = charCode \/ 10 = charCode \/ 13 = charCode
isBlankCharacter(charCode) ==
    9 = charCode \/ 32 = charCode \/ 11 = charCode \/ 12 = charCode
        \/ 10 = charCode \/ 13 = charCode

\* the while loop of isEmptyTextNode from `index` on
RECURSIVE onlyBlankFrom(_, _)
onlyBlankFrom(nodeValue, index) ==
    IF index > Len(nodeValue) THEN TRUE
    ELSE IF ~isBlankCharacter(nodeValue[index]) THEN FALSE
    ELSE onlyBlankFrom(nodeValue, index + 1)

\* isEmptyTextNode(node)
isEmptyTextNode(n) ==
    IF tree[n].nodeType # TEXT_NODE THEN FALSE
    ELSE IF \/ (previousElementSibling(n) # 0
                  /\ hasTagName(previousElementSibling(n), "span"))
            \/ (nextElementSibling(n) # 0 /\ hasTagName(nextElementSibling(n), "span"))
         THEN FALSE
         ELSE onlyBlankFrom(tree[n].nodeValue, 1)

\* isIgnored(node); node 0 stands for undefined
isIgnored(n) ==
    IF n = 0 THEN TRUE
    ELSE IF isEmptyTextNode(n) THEN TRUE
    ELSE IF tree[n].tagName = Undefined THEN FALSE
    ELSE toUpperCase(tree[n].tagName) \in ignoreTags

\* deepCloneWithStyles(node): the nodes of the live tree that have a node in
\* the clone ({} for null); an <img> is replaced by a fresh childless <img>
RECURSIVE deepCloneWithStyles(_)
deepCloneWithStyles(n) ==
    IF isIgnored(n) THEN {}
    ELSE IF hasTagName(n, "img") THEN {n}
    ELSE {n} \cup UNION {deepCloneWithStyles(c) : c \in childNodes(n)}

\* the page grows its tree: a node is appended as the last child of an element
AppendChild ==
    /\ ~cloned.done
    /\ Len(tree) < MaxNodes
    /\ \E p \in 1..Len(tree), kind \in NodeKinds :
          /\ tree[p].nodeType = 1
          /\ tree' = Append(tree, [kind EXCEPT !.parent = p])
    /\ UNCHANGED cloned
    /\ UNCHANGED <<cacheVars, styleVars>>

\* createDomElements clones document.documentElement
DeepClone ==
    /\ ~cloned.done
    /\ cloned' = [done |-> TRUE, kept |-> deepCloneWithStyles(1)]
    /\ UNCHANGED tree
    /\ UNCHANGED <<cacheVars, styleVars>>

InitClone ==
    /\ tree = <<ElementNode("HTML")>>
    /\ cloned = [done |-> FALSE, kept |-> {}]
    /\ allow_snapshot = NoAllow
    /\ dom_snapshot = NullItem
    /\ liveVersion = 0
    /\ observers = 0
    /\ tracked = FALSE
    /\ pendingRecords = FALSE
    /\ page = [styleSheets |-> << >>, matched |-> {}, hasHead |-> TRUE,
               bindings |-> TRUE, hasMutationObserver |-> TRUE]
    /\ req = [r \in Reqs |-> IdleCall]
    /\ defaultStylesCache = << >>
    /\ shapeStyle = << >>
    /\ visit = NoVisit

NextClone == AppendChild \/ DeepClone

SpecClone == InitClone /\ [][NextClone]_vars

---------------------------------------------------------------------------
(* Claims about the clone *)

Nodes == 1..Len(tree)

\* a node and the nodes above it
RECURSIVE AncestorsOrSelf(_)
AncestorsOrSelf(n) ==
    IF n = 0 THEN {} ELSE {n} \cup AncestorsOrSelf(tree[n].parent)

\* an element whose tag is SCRIPT, NOSCRIPT, STYLE or LINK, in either case
IsIgnoredElement(n) ==
    /\ tree[n].nodeType = 1
    /\ tree[n].tagName \in {"SCRIPT", "NOSCRIPT", "STYLE", "LINK",
                            "script", "noscript", "style", "link"}

\* C7: the clone has no node for an element whose tag is SCRIPT, NOSCRIPT,
\* STYLE or LINK, and none for a descendant of such an element.
C7_NoIgnoredSubtree ==
    cloned.done =>
        \A n \in Nodes :
            (\E a \in AncestorsOrSelf(n) : IsIgnoredElement(a)) => n \notin cloned.kept

\* a tree with a LINK element that has a child was cloned, and the clone kept
\* another node beside the root
C7_Witness ==
    /\ cloned.done
    /\ \E n, c \in Nodes :
          /\ tree[n].nodeType = 1 /\ tree[n].tagName = "LINK"
          /\ tree[c].parent = n
    /\ \E m \in cloned.kept : m # 1

\* the codes the claim calls blank: tab, space, VT, FF, LF, CR
BlankCodes == {9, 32, 11, 12, 10, 13}

IsBlankText(n) == \A k \in 1..Len(tree[n].nodeValue) : tree[n].nodeValue[k] \in BlankCodes

IsSpan(n) == tree[n].nodeType = 1 /\ tree[n].tagName \in {"SPAN", "span"}

Siblings(n) == {m \in Nodes : m # n /\ tree[m].parent = tree[n].parent}

\* the sibling right before, right after n is a span element
SpanAdjacent(n) ==
    \E m \in Siblings(n) :
        /\ IsSpan(m)
        /\ \/ m < n /\ ~\E x \in Siblings(n) : m < x /\ x < n
           \/ n < m /\ ~\E x \in Siblings(n) : n < x /\ x < m

\* the closest element sibling before, after n is a span (text and comment
\* nodes in between are skipped)
SpanNearest(n) ==
    \E m \in Siblings(n) :
        /\ IsSpan(m)
        /\ \/ m < n /\ ~\E x \in Siblings(n) : m < x /\ x < n /\ tree[x].nodeType = 1
           \/ n < m /\ ~\E x \in Siblings(n) : n < x /\ x < m /\ tree[x].nodeType = 1

\* a text node the cloner reaches: its parent is cloned with its children
\* (it is in the clone and is no <img>)
ReachedText(n) ==
    /\ tree[n].nodeType = TEXT_NODE
    /\ tree[n].parent \in cloned.kept
    /\ tree[tree[n].parent].tagName \notin {"IMG", "img"}

\* C8 (as claimed): a text node the cloner reaches is dropped exactly when it
\* is blank-only and neither immediately adjacent sibling is a span.
C8_BlankTextAdjacent ==
    cloned.done =>
        \A n \in Nodes :
            ReachedText(n) =>
                (n \notin cloned.kept <=> (IsBlankText(n) /\ ~SpanAdjacent(n)))

\* C8 (amended): a text node the cloner reaches is dropped exactly when it is
\* blank-only and neither its closest preceding element sibling nor its
\* closest following element sibling is a span.
C8_BlankTextNearestElement ==
    cloned.done =>
        \A n \in Nodes :
            ReachedText(n) =>
                (n \notin cloned.kept <=> (IsBlankText(n) /\ ~SpanNearest(n)))

\* a blank-only text node was kept because of a span that is its closest
\* element sibling but not its adjacent sibling
C8_Witness ==
    /\ cloned.done
    /\ \E n \in Nodes :
          /\ ReachedText(n) /\ IsBlankText(n) /\ Len(tree[n].nodeValue) > 0
          /\ SpanNearest(n) /\ ~SpanAdjacent(n)
          /\ n \in cloned.kept

---------------------------------------------------------------------------
(* updateStyle and getDefaultStyle *)

MaxVisits == 2

noStyleTags ==
    {"BASE", "HEAD", "HTML", "META", "NOFRAME", "NOSCRIPT", "PARAM", "SCRIPT",
     "STYLE", "TITLE", "LINK"}

\* getAttribute: null, or the text of the attribute
NoAttr == [present |-> FALSE, text |-> << >>]
Attr(text) == [present |-> TRUE, text |-> text]

\* property names, as their characters: x and cx
PropX == <<"x">>
PropCX == <<"c", "x">>
Props == {PropX, PropCX}

\* computed values; '' is the value of a property that is not set
Values == {"", "0", "1"}

\* the elements handed to updateStyle: class holds the tokens that
\* split(' ') cuts the attribute into, style the characters of the attribute
Elements ==
    [tagName : {"DIV", "HEAD"},
     id : {NoAttr, Attr(<<"a">>)},
     class : {NoAttr, Attr(<<"a", "b">>)},
     style : {NoAttr, Attr(<<"x", ":", "1">>), Attr(<<"c", "x", ":", "0">>)},
     computed : [Props -> Values]]

\* the key of getDefaultStyle: the class tokens sit in a one-element array,
\* which sort() leaves as it is
styleKey(node) ==
    [tag |-> node.tagName, id |-> node.id,
     classes |-> IF node.class.present /\ node.class.text # << >>
                 THEN <<node.class.text>> ELSE << >>]

\* defaultStylesCache after getDefaultStyle(node): a key not yet in the Map
\* gets window.getComputedStyle(node, null), the style of the live node
cacheAfter(node) ==
    IF styleKey(node) \in DOMAIN defaultStylesCache
    THEN defaultStylesCache
    ELSE (styleKey(node) :> node.computed) @@ defaultStylesCache

\* getDefaultStyle(node)
getDefaultStyle(node) == cacheAfter(node)[styleKey(node)]

\* isDefaultStyle(cssPropName, propertyValue, defaultStyle)
isDefaultStyle(cssPropName, propertyValue, defaultStyle) ==
    propertyValue = defaultStyle[cssPropName]

\* inlineStyle.indexOf(cssPropName) !== -1
indexOfFound(text, name) ==
    \E i \in 1..Len(text) :
        i + Len(name) - 1 <= Len(text) /\ SubSeq(text, i, i + Len(name) - 1) = name

\* isInlineStyle(node, cssPropName)
isInlineStyle(node, cssPropName) ==
    IF ~node.style.present \/ node.style.text = << >> THEN FALSE
    ELSE indexOfFound(node.style.text, cssPropName)

\* isComputeStyle(node), for an element
isComputeStyle(node) == toUpperCase(node.tagName) \notin noStyleTags

\* updateStyle(clone, node): the properties it assigns on clone.style
updateStyle(node) ==
    LET defaultStyle == getDefaultStyle(node)
        put == {p \in Props :
                   /\ node.computed[p] # ""
                   /\ \/ ~isDefaultStyle(p, node.computed[p], defaultStyle)
                      \/ isInlineStyle(node, p)}
    IN  [p \in put |-> node.computed[p]]

\* the shape of an element: its tag, id and set of classes
Shape(node) ==
    [tag |-> node.tagName, id |-> node.id,
     classes |-> {node.class.text[k] : k \in 1..Len(node.class.text)}]

\* deepCloneWithStyles reaches an element: it is shallow-cloned and, unless its
\* tag is never styled, updateStyle runs. `empty` is what an empty element of
\* the same shape computes to in this page.
VisitElement ==
    /\ visit.n < MaxVisits
    /\ \E node \in Elements, empty \in [Props -> {"0", "1"}] :
          /\ Shape(node) \in DOMAIN shapeStyle => shapeStyle[Shape(node)] = empty
          /\ shapeStyle' = (Shape(node) :> empty) @@ shapeStyle
          /\ IF isComputeStyle(node)
             THEN /\ defaultStylesCache' = cacheAfter(node)
                  /\ visit' = [n |-> visit.n + 1, node |-> node, styled |-> TRUE,
                               put |-> updateStyle(node)]
             ELSE /\ UNCHANGED defaultStylesCache
                  /\ visit' = [n |-> visit.n + 1, node |-> node, styled |-> FALSE,
                               put |-> << >>]
    /\ UNCHANGED <<cacheVars, cloneVars>>

InitStyle ==
    /\ defaultStylesCache = << >>
    /\ shapeStyle = << >>
    /\ visit = NoVisit
    /\ tree = NoTree
    /\ cloned = [done |-> FALSE, kept |-> {}]
    /\ allow_snapshot = NoAllow
    /\ dom_snapshot = NullItem
    /\ liveVersion = 0
    /\ observers = 0
    /\ tracked = FALSE
    /\ pendingRecords = FALSE
    /\ page = [styleSheets |-> << >>, matched |-> {}, hasHead |-> TRUE,
               bindings |-> TRUE, hasMutationObserver |-> TRUE]
    /\ req = [r \in Reqs |-> IdleCall]

NextStyle == VisitElement

SpecStyle == InitStyle /\ [][NextStyle]_vars

\* C10 (as claimed): on the clone of an element that is styled, a property
\* with a non-empty computed value is put exactly when the value differs from
\* what an empty element of the same tag, id and class set computes to, or the
\* property name occurs in the text of the style attribute; a property with an
\* empty value is never put.
C10_StyleDelta ==
    (visit.n > 0 /\ visit.styled) =>
        \A p \in Props :
            LET v == visit.node.computed[p]
                inline == /\ visit.node.style.present
                          /\ indexOfFound(visit.node.style.text, p)
            IN  /\ p \in DOMAIN visit.put
                    <=> (v # "" /\ (v # shapeStyle[Shape(visit.node)][p] \/ inline))
                /\ p \in DOMAIN visit.put => visit.put[p] = v


---------------------------------------------------------------------------
(* SpecObserved: the cache with an observer active *)

\* the state observeDOM would leave where MutationObserver exists: one
\* observer on document.documentElement, allow_snapshot 'true', and no
\* dom_snapshot (the IIFE removes it)
InitObserved ==
    /\ allow_snapshot = "true"
    /\ dom_snapshot = NullItem
    /\ liveVersion = 0
    /\ observers = 1
    /\ tracked = FALSE
    /\ pendingRecords = FALSE
    /\ page \in {pg \in CachePages : pg.hasMutationObserver}
    /\ req = [r \in Reqs |-> IdleCall]
    /\ OtherInit

\* with an observer installed, the steps of the cache and its callback
NextObserved ==
    \/ Next
    \/ ObserverCallback

SpecObserved == InitObserved /\ [][NextObserved]_vars

\* C11 (as claimed): with an observer active that removes dom_snapshot on
\* every structural mutation, whenever allow_snapshot is 'true' and a document
\* is stored, and the observer's callback has run for every mutation so far,
\* the document was built from a clone of the live tree taken after the most
\* recent structural mutation.
C11_SnapshotIsCurrent ==
    (/\ observers > 0
     /\ ~pendingRecords
     /\ allow_snapshot = "true"
     /\ dom_snapshot.kind = "xml"
     /\ dom_snapshot.doc.type = "document")
    => dom_snapshot.doc.root.version = liveVersion

====
